---- MODULE Spec2Model ----
(***************************************************************************)
(* The request-token / resolution-selection workflow of the video          *)
(* downloader bot (bot.py): link_handler builds the resolution menu and    *)
(* registers one token per entry in LINK_STORE, button_handler resolves a  *)
(* token, downloads the chosen format into a temporary directory, checks   *)
(* the size ceiling and uploads the file.                                  *)
(*                                                                         *)
(* Strings are sequences of atoms (an atom stands for a run of characters  *)
(* that the code never looks inside); ":" and " " are atoms of their own.  *)
(* A handler is cut at its await points: one action runs the code from    *)
(* the resumption of one await up to the next await, return or raise.      *)
(***************************************************************************)
EXTENDS Integers, Sequences, FiniteSets, TLC

(* ------------------------------ bounds -------------------------------- *)
\* link_handler invocations that can be in flight together
NL == 2
\* button_handler invocations that can be in flight together
NB == 2
\* temporary directories left behind before selections stop being dispatched
MaxDirs == 2
\* longest format list the Format Lister returns under SelectorSpec
MaxFormats == 2

LinkIds == 1..NL
BtnIds == 1..NB

(* ----------------------------- strings -------------------------------- *)
Colon == ":"
Space == " "

\* mutant of Split: split(sep, 1), the text is cut at the first sep only
SplitOnce(s, sep) ==
  IF \A k \in 1..Len(s) : s[k] # sep
    THEN <<s>>
    ELSE LET k == CHOOSE n \in 1..Len(s) :
                    s[n] = sep /\ \A m \in 1..(n - 1) : s[m] # sep
         IN  <<SubSeq(s, 1, k - 1), SubSeq(s, k + 1, Len(s))>>

\* str.split(sep): the parts between the occurrences of sep
RECURSIVE Split(_, _)
Split(s, sep) ==
  IF \A k \in 1..Len(s) : s[k] # sep
    THEN <<s>>
    ELSE LET k == CHOOSE n \in 1..Len(s) :
                    s[n] = sep /\ \A m \in 1..(n - 1) : s[m] # sep
         IN  <<SubSeq(s, 1, k - 1)>> \o Split(SubSeq(s, k + 1, Len(s)), sep)

\* f"{token}:{fmt_id}"
CbData(token, fmt_id) == token \o <<Colon>> \o fmt_id

\* str.strip(): leading and trailing whitespace removed
RECURSIVE Strip(_)
Strip(s) ==
  IF s = <<>> THEN s
  ELSE IF Head(s) = Space THEN Strip(Tail(s))
  ELSE IF s[Len(s)] = Space THEN Strip(SubSeq(s, 1, Len(s) - 1))
  ELSE s

\* str.lower() on an atom (these are the atoms with upper-case letters)
LowerAtom(a) ==
  CASE a = "HTTP://" -> "http://"
    [] a = "HTTPS://" -> "https://"
    [] a = "Cookies.TXT" -> "cookies.txt"
    [] OTHER -> a

Lower(s) == [k \in 1..Len(s) |-> LowerAtom(s[k])]

\* url.lower().startswith(("http://", "https://"))
IsHttpUrl(url) == Len(url) > 0 /\ Lower(url)[1] \in {"http://", "https://"}

\* f"{height}p" for an integer height
Label(height) == ToString(height) \o "p"

(* ------------------------ Resolution Selector ------------------------- *)
\* A format of info["formats"]: format_id is a string, vcodec an atom, and
\* height is <<>> when the key is missing (or None) and <<h>> otherwise.
Heights == {<<>>, <<0>>, <<720>>, <<1080>>}
VCodecs == {"none", "avc1"}
FormatIds == {<<"a">>, <<"b">>}
Formats == [format_id : FormatIds, vcodec : VCodecs, height : Heights]

\* f.get("height") or 0
HeightOf(f) == IF f.height = <<>> THEN 0 ELSE f.height[1]

\* sorted(formats, key=lambda x: (x.get("height") or 0), reverse=True): a
\* stable sort, so formats of equal height keep the order of the raw list.
RECURSIVE InsertDesc(_, _)
InsertDesc(f, sorted) ==
  IF sorted = <<>> THEN <<f>>
  ELSE IF HeightOf(Head(sorted)) >= HeightOf(f)
         THEN <<Head(sorted)>> \o InsertDesc(f, Tail(sorted))
         ELSE <<f>> \o sorted

RECURSIVE SortedDesc(_)
SortedDesc(formats) ==
  IF formats = <<>> THEN <<>>
  ELSE InsertDesc(formats[Len(formats)],
                  SortedDesc(SubSeq(formats, 1, Len(formats) - 1)))

\* mutants of Skipped: a test of the loop body is missing
SkippedNoSeen(f, seen_labels) ==
  \/ f.vcodec = "none"
  \/ HeightOf(f) = 0

SkippedNoVcodec(f, seen_labels) ==
  \/ HeightOf(f) = 0
  \/ Label(HeightOf(f)) \in seen_labels

SkippedNoZero(f, seen_labels) ==
  \/ f.vcodec = "none"
  \/ Label(HeightOf(f)) \in seen_labels

\* the tests of link_handler's loop body: the format gets no button
Skipped(f, seen_labels) ==
  \/ f.vcodec = "none"
  \/ HeightOf(f) = 0
  \/ Label(HeightOf(f)) \in seen_labels

\* the loop of link_handler over the sorted formats, without the tokens:
\* the accepted formats, in menu order
RECURSIVE Accept(_, _)
Accept(sorted, seen_labels) ==
  IF sorted = <<>> THEN <<>>
  ELSE LET f == Head(sorted) IN
       IF Skipped(f, seen_labels)
         THEN Accept(Tail(sorted), seen_labels)
         ELSE <<f>> \o Accept(Tail(sorted),
                              seen_labels \cup {Label(HeightOf(f))})

Accepted(formats) == Accept(SortedDesc(formats), {})

\* buttons: one row per accepted format, carrying the token minted for it
Buttons(accepted, tokens) ==
  [k \in 1..Len(accepted) |->
     [text |-> Label(HeightOf(accepted[k])),
      callback_data |-> CbData(tokens[k], accepted[k].format_id),
      height |-> HeightOf(accepted[k])]]

\* LINK_STORE[token] = url for every minted token, in loop order
RECURSIVE StoreAll(_, _, _)
StoreAll(store, tokens, url) ==
  IF tokens = <<>> THEN store
  ELSE LET t == Head(tokens)
           put == [x \in (DOMAIN store) \cup {t} |->
                     IF x = t THEN url ELSE store[x]]
       IN  StoreAll(put, Tail(tokens), url)

\* every sequence of at most n elements of S
SeqsUpTo(S, n) == UNION {[1..k -> S] : k \in 0..n}

(* --------------------------- inputs ----------------------------------- *)
\* message.text of a URL submission
Texts == {<<"https://", "v1">>, <<Space, "HTTP://", "v2", Space>>, <<"v1">>}
Urls == {Strip(t) : t \in Texts}

\* uuid.uuid4().hex[:10]: ten random hex digits, one atom each value
Tokens == {<<"t1">>, <<"t2">>}

\* a format_id with a ":" in it, and one that no format of any list has
ColonId == <<"hls", Colon, "1">>
NoSuchId == <<"zz">>

\* query.data of a menu selection: the data of a button of some menu, also a
\* menu of an earlier run of the process, data that does not split in two,
\* or data made up by the sender (a token with some other format_id)
Queries ==
  {CbData(t, f) : t \in Tokens, f \in FormatIds \cup {ColonId, NoSuchId}}
    \cup {<<"stale">>}

\* the spec's end-to-end list, in this model's format ids
Scenario ==
  << [format_id |-> <<"a">>, vcodec |-> "avc1", height |-> <<1080>>],
     [format_id |-> <<"b">>, vcodec |-> "avc1", height |-> <<720>>],
     [format_id |-> <<"c">>, vcodec |-> "avc1", height |-> <<720>>],
     [format_id |-> <<"d">>, vcodec |-> "none", height |-> <<0>>] >>

\* what info.get("formats") is under Spec: a few lists (None counts as <<>>)
Catalog ==
  { <<>>,
    Scenario,
    << [format_id |-> <<"a">>, vcodec |-> "none", height |-> <<720>>],
       [format_id |-> <<"b">>, vcodec |-> "avc1", height |-> <<>>] >>,
    << [format_id |-> <<"b">>, vcodec |-> "avc1", height |-> <<720>>] >>,
    << [format_id |-> ColonId, vcodec |-> "avc1", height |-> <<720>>] >> }

\* what it is under SelectorSpec: every list of at most MaxFormats formats
AllLists == SeqsUpTo(Formats, MaxFormats)

(* ---------------------------- state ----------------------------------- *)
VARIABLES
  LINK_STORE,          \* bot.py:29, token -> url
  cookies,             \* the file COOKIES_FILE: "absent", "valid" or "corrupt"
  concurrent_updates,  \* the Application's setting (main builds it unset)
  link,                \* the link_handler invocations, by LinkIds (store0: history, the store at the start)
  btn,                 \* the button_handler invocations, by BtnIds
  tmp,                 \* the existing mkdtemp directories -> their files
  issued,              \* history: the tokens minted so far
  tries,               \* history: a resolution of the token was tried since its last mint
  wins,                \* history: the successful resolutions of it since then
  burnt,               \* history: the tokens whose resolution since then stopped at the cookies check
  admin,               \* the document_handler or remove_cookies invocation
  tmpfiles             \* the existing tempfile.mktemp files of document_handler

vars == <<LINK_STORE, cookies, concurrent_updates, admin, tmpfiles, link, btn, tmp,
          issued, tries, wins, burnt>>

\* has_cookies() and not verify_cookies()
CookiesCorrupted == cookies = "corrupt"

\* a handler invocation that has not started, or whose locals are gone
NoLink == [pc |-> "idle", url |-> <<>>, formats |-> <<>>, buttons |-> <<>>,
           signal |-> "none", lister |-> 0, store0 |-> <<>>]

\* a link_handler invocation that ended with the exception of a Telegram
\* request (history: the Application logs it, nothing else is kept)
LinkRaised == [NoLink EXCEPT !.signal = "Raised"]
NoBtn == [pc |-> "idle", temp_dir |-> 0, data |-> <<>>, token |-> <<>>, fmt_id |-> <<>>,
          url |-> <<>>, signal |-> "none", was |-> "none", ydl |-> "none",
          left |-> {}, file |-> <<>>, dl |-> 0, sink |-> 0]

\* the same for document_handler and remove_cookies
\* (content is <<>> until the uploaded text has been read, then <<text>>)
NoAdmin == [pc |-> "idle", handler |-> "none", user |-> "", file_name |-> <<>>,
            content |-> <<>>, temp_cookies |-> 0]

\* the handler's coroutine has returned or raised: its locals are gone
Ended(r) == r.pc = "idle"

\* the invocation slot an update is handled in
FreeSlot(tasks, k) == Ended(tasks[k]) /\ \A m \in 1..(k - 1) : ~Ended(tasks[m])

\* Application._update_fetcher: with concurrent_updates unset the next update
\* is processed only after the handler of the previous one has returned
CanDispatch ==
  \/ concurrent_updates
  \/ /\ \A i \in LinkIds : Ended(link[i])
     /\ \A j \in BtnIds : Ended(btn[j])
     /\ Ended(admin)

\* the state after main() has built the Application, but for the setting
Start ==
  /\ LINK_STORE = <<>>
  /\ cookies \in {"absent", "valid", "corrupt"}
  /\ link = [i \in LinkIds |-> NoLink]
  /\ btn = [j \in BtnIds |-> NoBtn]
  /\ tmp = <<>>
  /\ issued = {}
  /\ tries = [t \in Tokens |-> FALSE]
  /\ wins = [t \in Tokens |-> 0]
  /\ burnt = {}
  /\ admin = NoAdmin
  /\ tmpfiles = {}

\* bot.py:405: ApplicationBuilder().token(BOT_TOKEN).build(), sequential
Init == Start /\ concurrent_updates = FALSE

\* the same handlers under an Application built with concurrent_updates(True)
InitConcurrent == Start /\ concurrent_updates = TRUE

(* --------------------------- link_handler ----------------------------- *)
\* bot.py:261-277: the text is checked, then the cookies file, and the first
\* reply is sent
LinkStart(i) ==
  /\ FreeSlot(link, i)
  /\ CanDispatch
  /\ \E text \in Texts :
       LET url == Strip(text) IN
       link' = [link EXCEPT ![i] =
         [NoLink EXCEPT
            !.url = url,
            !.store0 = LINK_STORE,
            !.pc = IF ~IsHttpUrl(url) THEN "reply_invalid"
                   ELSE IF CookiesCorrupted THEN "reply_corrupt"
                   ELSE "reply_analyzing",
            !.signal = IF ~IsHttpUrl(url) THEN "InvalidUrl"
                       ELSE IF CookiesCorrupted THEN "CookiesCorrupted"
                       ELSE "none"]]
  /\ UNCHANGED <<LINK_STORE, cookies, concurrent_updates, admin, tmpfiles, btn, tmp,
                 issued, tries, wins, burnt>>

\* the await of message.reply_text returns or raises (bot.py:265, 270, 277);
\* after "Analyzing video..." get_formats is started in a worker thread
LinkReplied(i) ==
  /\ link[i].pc \in {"reply_invalid", "reply_corrupt", "reply_analyzing"}
  /\ \E sent \in BOOLEAN :
       link' = [link EXCEPT ![i] =
         IF ~sent THEN LinkRaised
         ELSE IF link[i].pc = "reply_analyzing"
           THEN [link[i] EXCEPT !.pc = "extract", !.lister = @ + 1]
           ELSE NoLink]
  /\ UNCHANGED <<LINK_STORE, cookies, concurrent_updates, admin, tmpfiles, btn, tmp,
                 issued, tries, wins, burnt>>

\* bot.py:279-283: get_formats raised
LinkExtractFailed(i) ==
  /\ link[i].pc = "extract"
  /\ link' = [link EXCEPT ![i] =
       [link[i] EXCEPT !.pc = "edit_error", !.signal = "ExtractionFailed"]]
  /\ UNCHANGED <<LINK_STORE, cookies, concurrent_updates, admin, tmpfiles, btn, tmp,
                 issued, tries, wins, burnt>>

\* bot.py:285-316: get_formats returned info with these formats; the menu is
\* built, one token minted and stored per button, and the menu (or the
\* "No downloadable formats found" text) is sent
BuildMenu(i, formats) ==
  /\ link[i].pc = "extract"
  /\ \E accepted \in {Accepted(formats)} :
     \E tokens \in [1..Len(accepted) -> Tokens] :
     \E buttons \in {Buttons(accepted, tokens)} :
       LET minted == {tokens[k] : k \in 1..Len(tokens)} IN
       /\ LINK_STORE' = StoreAll(LINK_STORE, tokens, link[i].url)
       /\ issued' = issued \cup minted
       /\ tries' = [t \in Tokens |-> IF t \in minted THEN FALSE ELSE tries[t]]
       /\ wins' = [t \in Tokens |-> IF t \in minted THEN 0 ELSE wins[t]]
       /\ burnt' = burnt \ minted
       /\ link' = [link EXCEPT ![i] =
            [link[i] EXCEPT
               !.formats = formats,
               !.buttons = buttons,
               !.pc = IF buttons = <<>> THEN "edit_noformats" ELSE "edit_menu",
               !.signal = IF buttons = <<>> THEN "NoDownloadableFormat"
                          ELSE "Menu"]]
  /\ UNCHANGED <<cookies, concurrent_updates, admin, tmpfiles, btn, tmp>>

LinkExtracted(i) == \E formats \in Catalog : BuildMenu(i, formats)

\* the await of msg.edit_text returns or raises (bot.py:282, 308, 312); the
\* handler ends either way
LinkEdited(i) ==
  /\ link[i].pc \in {"edit_error", "edit_noformats", "edit_menu"}
  /\ \E sent \in BOOLEAN :
       link' = [link EXCEPT ![i] = IF sent THEN NoLink ELSE LinkRaised]
  /\ UNCHANGED <<LINK_STORE, cookies, concurrent_updates, admin, tmpfiles, btn, tmp,
                 issued, tries, wins, burnt>>

(* ------------------------- files and sizes ---------------------------- *)
\* A size in bytes is q GiB + r bytes, 0 <= r < GiB (the ceiling itself is
\* beyond the integers of the model checker, its two limbs are not).
GiB == 1024 * 1024 * 1024
Bytes(q, r) == [q |-> q, r |-> r]
Greater(a, b) == a.q > b.q \/ (a.q = b.q /\ a.r > b.r)

\* TELEGRAM_FILE_LIMIT = 2 * 1024 * 1024 * 1024
TELEGRAM_FILE_LIMIT == Bytes(2, 0)

\* mutant of ExceedsLimit: >= for >
ExceedsLimitGE(size) == ~Greater(TELEGRAM_FILE_LIMIT, size)

\* mutant of ExceedsLimit: the size is not compared
ExceedsNever(size) == FALSE

\* file_path.stat().st_size > TELEGRAM_FILE_LIMIT
ExceedsLimit(size) == Greater(size, TELEGRAM_FILE_LIMIT)

Sizes == {Bytes(0, 4096), Bytes(2, 0), Bytes(2, 1)}

\* A file name is the sequence of its dot-separated parts; Path.stem drops
\* the last suffix.
Stem(name) == IF Len(name) > 1 THEN SubSeq(name, 1, Len(name) - 1) ELSE name

\* out_path.name for temp_base = temp_dir / "video"
OutName == <<"video">>

\* what the Downloader may leave in the directory: nothing, a partial file,
\* an unmerged stream, or the merged file
Listings ==
  { {},
    {[name |-> <<"video", "mp4", "part">>, size |-> Bytes(0, 4096)]},
    {[name |-> <<"video", "f137", "mp4">>, size |-> Bytes(0, 4096)]} }
  \cup {{[name |-> <<"video", "mp4">>, size |-> sz]} : sz \in Sizes}

\* mutant of Located: the stem is not compared
LocatedAny(listing) == listing

\* download_format, bot.py:119-122: the files p with p.stem == out_path.name
Located(listing) == {p \in listing : Stem(p.name) = OutName}

\* shutil.rmtree(temp_dir, ignore_errors=True)
RmTree(dirs, d) == [x \in (DOMAIN dirs) \ {d} |-> dirs[x]]

\* tempfile.mkdtemp(prefix="dl_"): a name no existing directory has, and the
\* new, empty directory of that name
FreshDir(dirs) ==
  CHOOSE d \in 1..(Cardinality(DOMAIN dirs) + 1) :
    d \notin DOMAIN dirs /\ \A e \in 1..(d - 1) : e \in DOMAIN dirs

MkDTemp(dirs, d) == [x \in (DOMAIN dirs) \cup {d} |-> IF x = d THEN {} ELSE dirs[x]]

\* mutant of Pop: the entry is read and left in the store
PopKeep(store, token) == store

\* mutant of Pop: the store is emptied
PopAll(store, token) == <<>>

\* LINK_STORE.pop(token), the store it leaves
Pop(store, token) == [x \in (DOMAIN store) \ {token} |-> store[x]]

(* -------------------------- button_handler ---------------------------- *)
\* history: what has happened to a token when a resolution of it is tried
StatusOf(token) ==
  IF token \notin issued THEN "unminted"
  ELSE IF wins[token] > 0 THEN "spent"
  ELSE "fresh"

\* bot.py:319-320: the update is dispatched, query.answer() is awaited
ButtonStart(j) ==
  /\ FreeSlot(btn, j)
  /\ CanDispatch
  /\ Cardinality(DOMAIN tmp) < MaxDirs
  /\ \E data \in Queries :
       btn' = [btn EXCEPT ![j] =
         [NoBtn EXCEPT !.pc = "answer", !.data = data]]
  /\ UNCHANGED <<LINK_STORE, cookies, concurrent_updates, admin, tmpfiles, link, tmp,
                 issued, tries, wins, burnt>>

\* query.answer() raised: the handler ends with the exception
ButtonAnswerFailed(j) ==
  /\ btn[j].pc = "answer"
  /\ btn' = [btn EXCEPT ![j] = NoBtn]
  /\ UNCHANGED <<LINK_STORE, cookies, concurrent_updates, admin, tmpfiles, link, tmp,
                 issued, tries, wins, burnt>>

\* bot.py:322-327: query.data does not split in two, or the token is not in
\* LINK_STORE
ButtonExpired(j) ==
  /\ btn[j].pc = "answer"
  /\ LET parts == Split(btn[j].data, Colon) IN
     /\ Len(parts) # 2 \/ parts[1] \notin DOMAIN LINK_STORE
     /\ btn' = [btn EXCEPT ![j] =
          [btn[j] EXCEPT
             !.pc = "edit_expired",
             !.signal = "ExpiredOrInvalidToken",
             !.token = IF Len(parts) = 2 THEN parts[1] ELSE <<>>,
             !.fmt_id = IF Len(parts) = 2 THEN parts[2] ELSE <<>>,
             !.was = IF Len(parts) = 2 THEN StatusOf(parts[1]) ELSE "none"]]
     /\ tries' = [t \in Tokens |->
          IF Len(parts) = 2 /\ t = parts[1] THEN TRUE ELSE tries[t]]
  /\ UNCHANGED <<LINK_STORE, cookies, concurrent_updates, admin, tmpfiles, link, tmp,
                 issued, wins, burnt>>

\* bot.py:322-341: the token is popped; then the cookies file is checked,
\* the temporary directory made and "Downloading..." sent
ButtonResolved(j) ==
  /\ btn[j].pc = "answer"
  /\ LET parts == Split(btn[j].data, Colon) IN
     /\ Len(parts) = 2
     /\ parts[1] \in DOMAIN LINK_STORE
     /\ LINK_STORE' = Pop(LINK_STORE, parts[1])
     /\ tries' = [tries EXCEPT ![parts[1]] = TRUE]
     /\ wins' = [wins EXCEPT ![parts[1]] = @ + 1]
     /\ burnt' = IF CookiesCorrupted THEN burnt \cup {parts[1]} ELSE burnt
     /\ btn' = [btn EXCEPT ![j] =
          [btn[j] EXCEPT
             !.token = parts[1],
             !.fmt_id = parts[2],
             !.url = LINK_STORE[parts[1]],
             !.was = StatusOf(parts[1]),
             !.temp_dir = IF CookiesCorrupted THEN 0 ELSE FreshDir(tmp),
             !.pc = IF CookiesCorrupted THEN "edit_corrupt"
                    ELSE "edit_downloading",
             !.signal = IF CookiesCorrupted THEN "CookiesCorrupted"
                        ELSE "none"]]
     /\ tmp' = IF CookiesCorrupted THEN tmp ELSE MkDTemp(tmp, FreshDir(tmp))
  /\ UNCHANGED <<cookies, concurrent_updates, admin, tmpfiles, link, issued>>

\* the await of a status edit returns or raises: "Downloading..." (bot.py:341)
\* and "Uploading to Telegram..." (bot.py:372), both outside every try; after
\* the first the Downloader is started in a worker thread, after the second
\* reply_video is awaited
ButtonStatusEdited(j) ==
  /\ btn[j].pc \in {"edit_downloading", "edit_uploading"}
  /\ \E sent \in BOOLEAN :
       btn' = [btn EXCEPT ![j] =
         IF ~sent THEN NoBtn
         ELSE IF btn[j].pc = "edit_downloading"
           THEN [btn[j] EXCEPT !.pc = "download", !.dl = @ + 1]
           ELSE [btn[j] EXCEPT !.pc = "upload", !.sink = @ + 1]]
  /\ UNCHANGED <<LINK_STORE, cookies, concurrent_updates, admin, tmpfiles, link, tmp,
                 issued, tries, wins, burnt>>

\* bot.py:343-370 with download_format (bot.py:103-125): the Downloader has
\* left `listing` in the directory and reported success or raised; the file
\* is located by its stem, its size read and compared with the ceiling
ButtonDownloaded(j) ==
  /\ btn[j].pc = "download"
  /\ \E ydl_ok \in BOOLEAN, listing \in Listings, stat_ok \in BOOLEAN :
       IF ~ydl_ok \/ Located(listing) = {}
         THEN \* except Exception: rmtree, then the failure text
           /\ tmp' = RmTree(tmp, btn[j].temp_dir)
           /\ btn' = [btn EXCEPT ![j] =
                [btn[j] EXCEPT !.pc = "edit_dlfailed",
                               !.ydl = IF ydl_ok THEN "ok" ELSE "raised",
                               !.left = listing,
                               !.signal = "DownloadFailed"]]
         ELSE \E file_path \in Located(listing) :
           IF ~stat_ok
             THEN \* file_path.stat() raised, outside every try
               /\ tmp' = [tmp EXCEPT ![btn[j].temp_dir] = listing]
               /\ btn' = [btn EXCEPT ![j] = NoBtn]
             ELSE IF ExceedsLimit(file_path.size)
               THEN
                 /\ tmp' = RmTree(tmp, btn[j].temp_dir)
                 /\ btn' = [btn EXCEPT ![j] =
                      [btn[j] EXCEPT !.pc = "edit_toolarge",
                                     !.ydl = "ok",
                                     !.left = listing,
                                     !.file = <<file_path>>,
                                     !.signal = "FileTooLarge"]]
               ELSE
                 /\ tmp' = [tmp EXCEPT ![btn[j].temp_dir] = listing]
                 /\ btn' = [btn EXCEPT ![j] =
                      [btn[j] EXCEPT !.pc = "edit_uploading",
                                     !.ydl = "ok",
                                     !.left = listing,
                                     !.file = <<file_path>>]]
  /\ UNCHANGED <<LINK_STORE, cookies, concurrent_updates, admin, tmpfiles, link,
                 issued, tries, wins, burnt>>

\* bot.py:373-389: reply_video under wait_for(timeout=300) returned, timed
\* out or raised
ButtonUploaded(j) ==
  /\ btn[j].pc = "upload"
  /\ \E result \in {"sent", "timeout", "error"} :
       btn' = [btn EXCEPT ![j] =
         [btn[j] EXCEPT
            !.pc = CASE result = "sent" -> "delete"
                     [] result = "timeout" -> "edit_timeout"
                     [] OTHER -> "edit_upfailed",
            !.signal = IF result = "sent" THEN "Delivered"
                       ELSE "DeliveryFailed"]]
  /\ UNCHANGED <<LINK_STORE, cookies, concurrent_updates, admin, tmpfiles, link, tmp,
                 issued, tries, wins, burnt>>

\* bot.py:385-391: query.delete_message() returned (finally: rmtree) or
\* raised into `except Exception`
ButtonDeleted(j) ==
  /\ btn[j].pc = "delete"
  /\ \E deleted \in BOOLEAN :
       IF deleted
         THEN /\ tmp' = RmTree(tmp, btn[j].temp_dir)
              /\ btn' = [btn EXCEPT ![j] = NoBtn]
         ELSE /\ tmp' = tmp
              /\ btn' = [btn EXCEPT ![j] = [btn[j] EXCEPT !.pc = "edit_upfailed"]]
  /\ UNCHANGED <<LINK_STORE, cookies, concurrent_updates, admin, tmpfiles, link,
                 issued, tries, wins, burnt>>

\* mutant of ButtonFinalEdited: after the failure text of a download the
\* Downloader is started again
ButtonFinalEditedRetry(j) ==
  /\ btn[j].pc \in {"edit_expired", "edit_corrupt", "edit_dlfailed",
                    "edit_toolarge", "edit_timeout", "edit_upfailed"}
  /\ btn' = [btn EXCEPT ![j] =
       IF btn[j].pc = "edit_dlfailed"
         THEN [btn[j] EXCEPT !.pc = "download", !.dl = @ + 1]
         ELSE NoBtn]
  /\ tmp' = IF btn[j].pc \in {"edit_timeout", "edit_upfailed"}
              THEN RmTree(tmp, btn[j].temp_dir) ELSE tmp
  /\ UNCHANGED <<LINK_STORE, cookies, concurrent_updates, admin, tmpfiles, link,
                 issued, tries, wins, burnt>>

\* the await of the last edit of a flow returns or raises; the flows that
\* still hold the directory are inside try/finally (bot.py:387-391), the
\* others have removed it or never made one (bot.py:326, 331, 362-364, 369)
ButtonFinalEdited(j) ==
  /\ btn[j].pc \in {"edit_expired", "edit_corrupt", "edit_dlfailed",
                    "edit_toolarge", "edit_timeout", "edit_upfailed"}
  /\ \E sent \in BOOLEAN :
       btn' = [btn EXCEPT ![j] = NoBtn]
  /\ tmp' = IF btn[j].pc \in {"edit_timeout", "edit_upfailed"}
              THEN RmTree(tmp, btn[j].temp_dir) ELSE tmp
  /\ UNCHANGED <<LINK_STORE, cookies, concurrent_updates, admin, tmpfiles, link,
                 issued, tries, wins, burnt>>

(* ------------------------- the cookies file --------------------------- *)
\* ADMIN_IDS, from the environment, and the users that send updates
ADMIN_IDS == {"admin"}
Users == {"admin", "guest"}

\* document.file_name of an uploaded document
FileNames == {<<"cookies.txt">>, <<"Cookies.TXT">>, <<"notes.txt">>}

\* the text of an uploaded file (and of the cookies file)
Contents ==
  { <<"#", "youtube.com">>,
    <<Space, "#", "youtube.com", Space>>,
    <<"youtube.com", "#">>,
    <<"#", "example.com">>,
    <<>> }

\* mutant of ValidContent: the content is not checked
ValidContentAny(content) == TRUE

\* 'youtube.com' in content and content.strip().startswith('#')
ValidContent(content) ==
  /\ \E k \in 1..Len(content) : content[k] = "youtube.com"
  /\ Strip(content) # <<>>
  /\ Head(Strip(content)) = "#"

\* what has_cookies() and verify_cookies() make of a cookies file with this
\* text: an empty file counts as none
FileState(content) ==
  IF content = <<>> THEN "absent"
  ELSE IF ValidContent(content) THEN "valid"
  ELSE "corrupt"

\* has_cookies()
HasCookies == cookies # "absent"

\* tempfile.mktemp(): a name no existing file has
FreshFile(files) ==
  CHOOSE f \in 1..(Cardinality(files) + 1) :
    f \notin files /\ \A e \in 1..(f - 1) : e \in files

\* bot.py:222-238: a document arrives; a user outside ADMIN_IDS gets no
\* answer, another file name is refused, else a temporary name is made and
\* document.get_file() awaited
DocumentStart ==
  /\ Ended(admin)
  /\ CanDispatch
  /\ Cardinality(tmpfiles) < MaxDirs
  /\ \E user \in Users, file_name \in FileNames :
       admin' =
         IF user \notin ADMIN_IDS THEN NoAdmin
         ELSE [NoAdmin EXCEPT
                 !.handler = "document_handler",
                 !.user = user,
                 !.file_name = file_name,
                 !.pc = IF Lower(file_name) # <<"cookies.txt">>
                          THEN "reply_name" ELSE "get_file",
                 !.temp_cookies = IF Lower(file_name) # <<"cookies.txt">>
                                    THEN 0 ELSE FreshFile(tmpfiles)]
  /\ UNCHANGED <<LINK_STORE, cookies, concurrent_updates, tmpfiles, link, btn,
                 tmp, issued, tries, wins, burnt>>

\* bot.py:238-239: document.get_file() returned, file.download_to_drive is
\* awaited; or it raised into `except Exception`
DocumentGotFile ==
  /\ admin.pc = "get_file"
  /\ \E got \in BOOLEAN :
       admin' = [admin EXCEPT !.pc = IF got THEN "download" ELSE "reply_error"]
  /\ UNCHANGED <<LINK_STORE, cookies, concurrent_updates, tmpfiles, link, btn,
                 tmp, issued, tries, wins, burnt>>

\* bot.py:239-254: the download has written the file, or raised with the
\* file written in part or not at all; the text is read and checked, and
\* shutil.move puts it in the place of the cookies file
DocumentDownloaded ==
  /\ admin.pc = "download"
  /\ \E content \in Contents, written \in BOOLEAN, partial \in BOOLEAN :
       IF ~written
         THEN /\ tmpfiles' = IF partial THEN tmpfiles \cup {admin.temp_cookies}
                             ELSE tmpfiles
              /\ cookies' = cookies
              /\ admin' = [admin EXCEPT !.pc = "reply_error"]
         ELSE IF ~ValidContent(content)
           THEN /\ tmpfiles' = tmpfiles \cup {admin.temp_cookies}
                /\ cookies' = cookies
                /\ admin' = [admin EXCEPT !.pc = "reply_error",
                                          !.content = <<content>>]
           ELSE /\ tmpfiles' = tmpfiles \ {admin.temp_cookies}
                /\ cookies' = FileState(content)
                /\ admin' = [admin EXCEPT !.pc = "reply_saved",
                                          !.content = <<content>>]
  /\ UNCHANGED <<LINK_STORE, concurrent_updates, link, btn,
                 tmp, issued, tries, wins, burnt>>

\* the await of message.reply_text returns or raises (bot.py:232, 250); the
\* handler ends either way
DocumentReplied ==
  /\ admin.handler = "document_handler"
  /\ admin.pc \in {"reply_name", "reply_saved"}
  /\ \E sent \in BOOLEAN : admin' = NoAdmin
  /\ UNCHANGED <<LINK_STORE, cookies, concurrent_updates, tmpfiles, link, btn,
                 tmp, issued, tries, wins, burnt>>

\* bot.py:255-258: the except branch awaits the error text and only then
\* unlinks the temporary file; the await returns or raises
DocumentErrorReplied ==
  /\ admin.pc = "reply_error"
  /\ \E sent \in BOOLEAN :
       tmpfiles' = IF sent THEN tmpfiles \ {admin.temp_cookies} ELSE tmpfiles
  /\ admin' = NoAdmin
  /\ UNCHANGED <<LINK_STORE, cookies, concurrent_updates, link, btn,
                 tmp, issued, tries, wins, burnt>>

\* bot.py:165-179: /remove_cookies; a user outside ADMIN_IDS gets a joke, an
\* admin has the file removed by os.remove, which may raise; a text is sent
RemoveCookiesStart ==
  /\ Ended(admin)
  /\ CanDispatch
  /\ \E user \in Users, removed \in BOOLEAN :
       /\ cookies' = IF user \in ADMIN_IDS /\ HasCookies /\ removed
                       THEN "absent" ELSE cookies
       /\ admin' = [NoAdmin EXCEPT !.handler = "remove_cookies",
                                   !.user = user,
                                   !.pc = "reply_removed"]
  /\ UNCHANGED <<LINK_STORE, concurrent_updates, tmpfiles, link, btn,
                 tmp, issued, tries, wins, burnt>>

\* the await of update.message.reply_text returns or raises (bot.py:169,
\* 175, 177, 179)
RemoveCookiesReplied ==
  /\ admin.pc = "reply_removed"
  /\ \E sent \in BOOLEAN : admin' = NoAdmin
  /\ UNCHANGED <<LINK_STORE, cookies, concurrent_updates, tmpfiles, link, btn,
                 tmp, issued, tries, wins, burnt>>

\* The cookies file is a file on the persistent disk (bot.py:27) that the
\* handlers read anew at every check (bot.py:72-87): it is also what the
\* deployment or an operator last wrote there.
CookiesFileChanged ==
  /\ \E content \in Contents :
       /\ FileState(content) # cookies
       /\ cookies' = FileState(content)
  /\ UNCHANGED <<LINK_STORE, concurrent_updates, admin, tmpfiles, link, btn,
                 tmp, issued, tries, wins, burnt>>

(* -------------------------- specifications ---------------------------- *)
Next ==
  \/ \E i \in LinkIds :
       \/ LinkStart(i)
       \/ LinkReplied(i)
       \/ LinkExtractFailed(i)
       \/ LinkExtracted(i)
       \/ LinkEdited(i)
  \/ \E j \in BtnIds :
       \/ ButtonStart(j)
       \/ ButtonAnswerFailed(j)
       \/ ButtonExpired(j)
       \/ ButtonResolved(j)
       \/ ButtonStatusEdited(j)
       \/ ButtonDownloaded(j)
       \/ ButtonUploaded(j)
       \/ ButtonDeleted(j)
       \/ ButtonFinalEdited(j)

\* the program: updates are handled one at a time
Spec == Init /\ [][Next]_vars

\* What the scheduling guarantees: an awaited Telegram request returns or
\* raises (the requests have time limits, and reply_video is under
\* wait_for(timeout=300), bot.py:374-384), and a coroutine that can go on
\* does. Nothing bounds the worker threads of get_formats and
\* download_format (bot.py:280, 344-350), and no user has to send anything.
Fairness ==
  /\ \A i \in LinkIds :
       /\ WF_vars(LinkReplied(i))
       /\ WF_vars(LinkEdited(i))
  /\ \A j \in BtnIds :
       /\ WF_vars(ButtonAnswerFailed(j) \/ ButtonExpired(j) \/ ButtonResolved(j))
       /\ WF_vars(ButtonStatusEdited(j))
       /\ WF_vars(ButtonUploaded(j))
       /\ WF_vars(ButtonDeleted(j))
       /\ WF_vars(ButtonFinalEdited(j))

\* the program with that fairness
FairSpec == Spec /\ Fairness

\* the handlers as concurrent tasks, interleaved at their await points; a
\* button_handler that has resolved its token and made its directory stays
\* suspended in the await that follows (bot.py:341). Two button_handler
\* tasks run beside one link_handler at a time.
RaceNext ==
  \/ \E i \in {1} :
       \/ LinkStart(i)
       \/ LinkReplied(i)
       \/ LinkExtractFailed(i)
       \/ LinkExtracted(i)
       \/ LinkEdited(i)
  \/ \E j \in {1, 2} :
       \/ ButtonStart(j)
       \/ ButtonAnswerFailed(j)
       \/ ButtonExpired(j)
       \/ ButtonResolved(j)
       \/ ButtonFinalEdited(j)

ConcurrentSpec == InitConcurrent /\ [][RaceNext]_vars

\* the Resolution Selector on every format list of at most MaxFormats
\* formats, each list in a submission that finds the store empty (the
\* selection does not read the store)
SelectorNext ==
  \/ LinkStart(1)
  \/ LinkReplied(1)
  \/ LinkExtractFailed(1)
  \/ LINK_STORE = <<>> /\ \E formats \in AllLists : BuildMenu(1, formats)
  \/ LinkEdited(1)

SelectorSpec == Init /\ [][SelectorNext]_vars

\* the program with the handlers of the cookies file
AdminNext ==
  \/ Next
  \/ DocumentStart
  \/ DocumentGotFile
  \/ DocumentDownloaded
  \/ DocumentReplied
  \/ DocumentErrorReplied
  \/ RemoveCookiesStart
  \/ RemoveCookiesReplied

AdminSpec == Init /\ [][AdminNext]_vars

\* the program on a disk where the cookies file changes under it
DriftNext == Next \/ CookiesFileChanged

DriftSpec == Init /\ [][DriftNext]_vars

(* ------------------------------ claims -------------------------------- *)
\* C1. Single-use tokens: a token that was resolved successfully and not
\* minted again since is not in LINK_STORE, and every resolution tried on
\* it in that time ends in ExpiredOrInvalidToken: no directory is made and
\* no download started for it.
C1_SingleUse ==
  /\ \A t \in issued : wins[t] > 0 => t \notin DOMAIN LINK_STORE
  /\ \A j \in BtnIds :
       btn[j].was = "spent" =>
         /\ btn[j].pc = "edit_expired"
         /\ btn[j].signal = "ExpiredOrInvalidToken"
         /\ btn[j].temp_dir = 0
         /\ btn[j].dl = 0

\* a second selection of a token already resolved is being answered
C1_Witness ==
  \E j \in BtnIds :
    /\ btn[j].was = "spent"
    /\ btn[j].pc = "edit_expired"
    /\ btn[j].token \notin DOMAIN LINK_STORE

\* C2. Two button_handler tasks with the same token, interleaved at their
\* await points: of the resolutions tried on a token since it was minted
\* exactly one succeeds (never two, and never none); a task that resolved
\* the token did so before any other since the mint, and a task that was
\* told ExpiredOrInvalidToken for a minted token came after the one winner.
C2_OneWinner ==
  /\ \A t \in issued : wins[t] <= 1 /\ (tries[t] => wins[t] = 1)
  /\ \A j \in BtnIds :
       /\ btn[j].pc \in {"edit_downloading", "edit_corrupt"}
            => btn[j].was = "fresh"
       /\ (btn[j].pc = "edit_expired" /\ btn[j].token # <<>>)
            => btn[j].was \in {"unminted", "spent"}

\* both tasks are in flight, one has resolved the token and the other,
\* with the same token, is being told that it is expired
C2_Witness ==
  \E j, k \in BtnIds :
    /\ j # k
    /\ btn[j].token = btn[k].token
    /\ btn[j].pc = "edit_downloading"
    /\ btn[k].pc = "edit_expired"
    /\ btn[k].was = "spent"
    /\ wins[btn[j].token] = 1

\* C3. Working-directory release on every exit path: every temporary
\* directory that exists belongs to a button_handler that has not yet
\* returned or raised.
C3_DirReleased ==
  \A d \in DOMAIN tmp :
    \E j \in BtnIds : ~Ended(btn[j]) /\ btn[j].temp_dir = d

\* the formats of a list that can get a button, stated from the record
Usable(f) == f.vcodec # "none" /\ f.height \notin {<<>>, <<0>>}

\* a link_handler that has built its menu and is sending it
MenuBuilt(r) == r.pc \in {"edit_menu", "edit_noformats"}

\* C4. For every raw format list, the menu has no two entries of the same
\* height (nor of the same label) and is in strictly descending order of
\* height.
C4_MenuStrictlyDescending ==
  \A i \in LinkIds :
    MenuBuilt(link[i]) =>
      \A k, m \in 1..Len(link[i].buttons) :
        k < m => /\ link[i].buttons[k].height > link[i].buttons[m].height
                 /\ link[i].buttons[k].text # link[i].buttons[m].text

\* a list given in ascending order of height has produced a two-row menu
C4_Witness ==
  \E i \in LinkIds :
    /\ link[i].pc = "edit_menu"
    /\ Len(link[i].formats) = 2
    /\ HeightOf(link[i].formats[1]) < HeightOf(link[i].formats[2])
    /\ Len(link[i].buttons) = 2

\* C5. No menu entry comes from a format without a video stream or with a
\* missing or zero height: every button carries the format_id and the
\* height of a usable format of the list; and every non-zero height of a
\* usable format has its button.
C5_MenuFromVideoFormats ==
  \A i \in LinkIds :
    MenuBuilt(link[i]) =>
      /\ \A k \in 1..Len(link[i].buttons) :
           /\ link[i].buttons[k].height # 0
           /\ \E m \in 1..Len(link[i].formats) :
                /\ Usable(link[i].formats[m])
                /\ link[i].formats[m].height = <<link[i].buttons[k].height>>
                /\ Split(link[i].buttons[k].callback_data, Colon)[2]
                     = link[i].formats[m].format_id
      /\ \A m \in 1..Len(link[i].formats) :
           Usable(link[i].formats[m]) =>
             \E k \in 1..Len(link[i].buttons) :
               <<link[i].buttons[k].height>> = link[i].formats[m].height

\* an audio-only format of the greater height comes first in the list and
\* the menu holds the video format alone
C5_Witness ==
  \E i \in LinkIds :
    /\ link[i].pc = "edit_menu"
    /\ Len(link[i].formats) = 2
    /\ link[i].formats[1].vcodec = "none"
    /\ link[i].formats[1].height = <<1080>>
    /\ Usable(link[i].formats[2])
    /\ Len(link[i].buttons) = 1

\* C6. A format list without a usable format (the empty list too) ends the
\* submission in NoDownloadableFormat: no button is made, no token stored,
\* the Format Lister was invoked once, and the handler ends after sending
\* the text.
C6_NoDownloadableFormat ==
  [][\A i \in LinkIds :
       /\ (/\ MenuBuilt(link'[i])
           /\ \A m \in 1..Len(link'[i].formats) : ~Usable(link'[i].formats[m]))
          => /\ link'[i].pc = "edit_noformats"
             /\ link'[i].signal = "NoDownloadableFormat"
             /\ link'[i].buttons = <<>>
             /\ link'[i].lister = 1
             /\ (link[i].pc = "extract" => LINK_STORE' = LINK_STORE)
       /\ link[i].pc = "edit_noformats"
          => link'[i] = link[i] \/ Ended(link'[i])]_vars

\* a list of formats none of which is usable is being answered
C6_Witness ==
  \E i \in LinkIds :
    /\ link[i].pc = "edit_noformats"
    /\ Len(link[i].formats) = 2
    /\ link[i].formats[1].vcodec = "none"
    /\ link[i].formats[2].height = <<0>>
    /\ link[i].formats[2].vcodec # "none"

\* the size is above 2 GiB = 2 * 1024 * 1024 * 1024 bytes
Over2GiB(size) == size.q >= 3 \/ (size.q = 2 /\ size.r >= 1)

\* C7. Size ceiling: a located file of more than 2 GiB ends the flow in
\* FileTooLarge, its directory removed and the Delivery Sink not invoked; a
\* file of at most 2 GiB, the ceiling itself included, goes on to the
\* upload, where reply_video is invoked once the status text is sent.
C7_SizeCeiling ==
  \A j \in BtnIds :
    btn[j].file # <<>> =>
      IF Over2GiB(btn[j].file[1].size)
        THEN /\ btn[j].pc = "edit_toolarge"
             /\ btn[j].signal = "FileTooLarge"
             /\ btn[j].sink = 0
             /\ btn[j].temp_dir \notin DOMAIN tmp
        ELSE /\ btn[j].pc \in {"edit_uploading", "upload", "delete",
                               "edit_timeout", "edit_upfailed"}
             /\ btn[j].signal # "FileTooLarge"
             /\ btn[j].sink = IF btn[j].pc = "edit_uploading" THEN 0 ELSE 1
             /\ btn[j].temp_dir \in DOMAIN tmp

\* a file of exactly 2 GiB has been handed to reply_video
C7_Witness ==
  \E j \in BtnIds :
    /\ btn[j].pc = "upload"
    /\ btn[j].file = <<[name |-> <<"video", "mp4">>, size |-> Bytes(2, 0)]>>
    /\ btn[j].sink = 1

\* no file video.<ext> (the names of the template out_tpl) is in the listing
NoArtifact(listing) ==
  \A p \in listing : ~(Len(p.name) = 2 /\ p.name[1] = "video")

\* C8. Artifact missing: when the Downloader reported success and left no
\* file video.<ext>, the handler goes on to report the failure, as it does
\* for a Downloader failure: DownloadFailed, no file located, no size check
\* passed, the Delivery Sink not invoked, the directory removed.
C8_ArtifactMissing ==
  \A j \in BtnIds :
    (btn[j].ydl = "ok" /\ NoArtifact(btn[j].left)) =>
      /\ btn[j].pc = "edit_dlfailed"
      /\ btn[j].signal = "DownloadFailed"
      /\ btn[j].file = <<>>
      /\ btn[j].sink = 0
      /\ btn[j].temp_dir # 0
      /\ btn[j].temp_dir \notin DOMAIN tmp

\* the Downloader reported success and left a partial file only
C8_Witness ==
  \E j \in BtnIds :
    /\ btn[j].ydl = "ok"
    /\ btn[j].left # {}
    /\ NoArtifact(btn[j].left)
    /\ btn[j].pc = "edit_dlfailed"

\* C9. Token uniqueness at issuance: a menu build adds as many entries to
\* LINK_STORE as the menu has rows (every minted token is new), and the url
\* of a stored entry stays the same until the entry is removed.
C9_UniqueAtIssuance ==
  [][/\ \A t \in (DOMAIN LINK_STORE) \cap (DOMAIN LINK_STORE') :
          LINK_STORE'[t] = LINK_STORE[t]
     /\ \A i \in LinkIds :
          (link[i].pc = "extract" /\ MenuBuilt(link'[i])) =>
            Cardinality(DOMAIN LINK_STORE')
              = Cardinality(DOMAIN LINK_STORE) + Len(link'[i].buttons)]_vars

\* a handler is suspended in the extraction, the download or the upload
Suspended ==
  \/ \E i \in LinkIds : link[i].pc = "extract"
  \/ \E j \in BtnIds : btn[j].pc \in {"download", "upload"}

\* C10. Responsiveness at suspension points: while a handler is suspended
\* awaiting extraction, download or upload and an invocation slot is free,
\* a URL submission and a menu selection of another user can be dispatched
\* to a handler.
C10_Responsive ==
  Suspended =>
    /\ (\E i \in LinkIds : Ended(link[i]))
         => ENABLED (\E i \in LinkIds : LinkStart(i))
    /\ ((\E j \in BtnIds : Ended(btn[j])) /\ Cardinality(DOMAIN tmp) < MaxDirs)
         => ENABLED (\E j \in BtnIds : ButtonStart(j))

\* the token a button_handler invocation is about: the text before the
\* first ":" of its callback data
TokenOf(data) == Split(data, Colon)[1]

\* C11. Isolation between tokens: a step of a button_handler invocation for
\* token t (the resolution, tried or done, and every later step of the flow,
\* its failures included) adds no entry to LINK_STORE and removes at most
\* the entry of t; every other entry stays, with its url.
C11_TokenIsolation ==
  [][\A j \in BtnIds :
       btn'[j] # btn[j] =>
         LET t == TokenOf(IF Ended(btn[j]) THEN btn'[j].data ELSE btn[j].data)
         IN  /\ DOMAIN LINK_STORE' \subseteq DOMAIN LINK_STORE
             /\ \A u \in DOMAIN LINK_STORE :
                  u # t => /\ u \in DOMAIN LINK_STORE'
                           /\ LINK_STORE'[u] = LINK_STORE[u]]_vars

\* the download of a resolved token has failed and the entry of the other
\* row of the same menu, never tried, is still stored with the menu's url
C11_Witness ==
  \E j \in BtnIds :
    /\ btn[j].pc = "edit_dlfailed"
    /\ btn[j].was = "fresh"
    /\ \E u \in DOMAIN LINK_STORE :
         /\ u # btn[j].token
         /\ ~tries[u]
         /\ LINK_STORE[u] = btn[j].url

\* C12. Strict step order of the download flow: the Downloader is invoked
\* only in a flow that resolved its token and made its directory, which
\* still exists then; a file is located and its size checked only after the
\* Downloader was invoked once and reported success, and it is a file the
\* Downloader left; the Delivery Sink is invoked only on a located file
\* that is not above 2 GiB; and a delivered flow has gone through the
\* resolution, the directory, one download, the size check and one upload.
C12_StepOrder ==
  \A j \in BtnIds :
    /\ btn[j].dl >= 1 =>
         /\ btn[j].was = "fresh"
         /\ btn[j].token # <<>>
         /\ btn[j].temp_dir # 0
         /\ btn[j].pc = "download" => btn[j].temp_dir \in DOMAIN tmp
    /\ btn[j].file # <<>> =>
         /\ btn[j].dl = 1
         /\ btn[j].ydl = "ok"
         /\ btn[j].file[1] \in btn[j].left
    /\ btn[j].sink >= 1 =>
         /\ btn[j].file # <<>>
         /\ ~Over2GiB(btn[j].file[1].size)
         /\ btn[j].temp_dir \in DOMAIN tmp
    /\ btn[j].signal = "Delivered" =>
         /\ btn[j].was = "fresh"
         /\ btn[j].temp_dir # 0
         /\ btn[j].dl = 1
         /\ btn[j].ydl = "ok"
         /\ btn[j].file # <<>>
         /\ btn[j].sink = 1

\* reply_video has returned for a flow that went through every step
C12_Witness ==
  \E j \in BtnIds :
    /\ btn[j].pc = "delete"
    /\ btn[j].signal = "Delivered"
    /\ btn[j].dl = 1
    /\ btn[j].sink = 1

\* C13. No second download and no automatic retry: a step starts the
\* Downloader (the Delivery Sink) only in a flow that resolved its token in
\* this invocation and has not started it before, so that every invocation
\* belongs to one successful resolution of its own and none has two; and
\* after DownloadFailed or DeliveryFailed the flow only sends its text and
\* ends.
C13_NoSecondDownload ==
  [][\A j \in BtnIds :
       /\ btn'[j].dl > btn[j].dl =>
            /\ btn[j].dl = 0 /\ btn'[j].dl = 1
            /\ btn[j].was = "fresh"
            /\ wins[btn[j].token] >= 1
       /\ btn'[j].sink > btn[j].sink =>
            /\ btn[j].sink = 0 /\ btn'[j].sink = 1
            /\ btn[j].dl = 1
            /\ btn[j].was = "fresh"
       /\ btn[j].signal \in {"DownloadFailed", "DeliveryFailed"} =>
            \/ Ended(btn'[j])
            \/ /\ btn'[j].dl = btn[j].dl
               /\ btn'[j].sink = btn[j].sink
               /\ btn'[j].signal = btn[j].signal]_vars

\* the failure text of a flow whose one download has failed is being sent
C13_Witness ==
  \E j \in BtnIds :
    /\ btn[j].pc = "edit_dlfailed"
    /\ btn[j].signal = "DownloadFailed"
    /\ btn[j].dl = 1
    /\ wins[btn[j].token] = 1

\* C14. Bounded waiting on both external steps: a flow that has made its
\* working directory eventually ends, whether or not the Downloader or the
\* Delivery Sink ever responds.
C14_BoundedWaiting ==
  \A j \in BtnIds : (btn[j].temp_dir # 0) ~> Ended(btn[j])

\* the part of C14 that is about the Delivery Sink alone: a flow waiting
\* for reply_video eventually ends
UploadBounded ==
  \A j \in BtnIds : (btn[j].pc = "upload") ~> Ended(btn[j])

\* C15. One token per menu entry: the build of a menu of k rows for url u
\* adds exactly k entries to LINK_STORE, the tokens of the k rows, each
\* mapped to u and each row with a token of its own; no other entry is
\* added.
C15_OneTokenPerEntry ==
  [][\A i \in LinkIds :
       (link[i].pc = "extract" /\ MenuBuilt(link'[i])) =>
         LET rows == link'[i].buttons
             new == (DOMAIN LINK_STORE') \ (DOMAIN LINK_STORE)
         IN  /\ Cardinality(new) = Len(rows)
             /\ \A k \in 1..Len(rows) :
                  /\ TokenOf(rows[k].callback_data) \in new
                  /\ LINK_STORE'[TokenOf(rows[k].callback_data)] = link[i].url
             /\ \A k, m \in 1..Len(rows) :
                  k # m => TokenOf(rows[k].callback_data)
                             # TokenOf(rows[m].callback_data)
             /\ \A t \in new :
                  \E k \in 1..Len(rows) : TokenOf(rows[k].callback_data) = t]_vars

\* the format_ids of the rows of the menus that can be built
MenuFormatIds ==
  UNION {{Accepted(formats)[k].format_id : k \in 1..Len(Accepted(formats))} :
           formats \in Catalog}

\* C16. Selection binding: the Downloader is invoked with the url of the
\* resolved token and the format_id of a menu row; a selection with a
\* stored token and a format_id of no row starts no download of that
\* format.
C16_SelectionBinding ==
  \A j \in BtnIds :
    btn[j].dl >= 1 =>
      /\ btn[j].url \in Urls
      /\ btn[j].fmt_id \in MenuFormatIds

\* the number of ":" in callback data
Colons(data) == Cardinality({k \in 1..Len(data) : data[k] = Colon})

\* C17. Malformed selection events leave the store unchanged: when the
\* callback data has no ":" or more than one, the step after query.answer()
\* removes no entry of LINK_STORE and makes no directory, and the handler
\* either ended with the exception of query.answer() or answers
\* ExpiredOrInvalidToken, also when the text before the first ":" is a
\* stored token; so the data of a resolved selection has exactly one ":".
C17_MalformedSelection ==
  [][\A j \in BtnIds :
       /\ (btn[j].pc = "answer" /\ Colons(btn[j].data) # 1
             /\ btn'[j] # btn[j]) =>
            /\ LINK_STORE' = LINK_STORE
            /\ tmp' = tmp
            /\ \/ Ended(btn'[j])
               \/ /\ btn'[j].pc = "edit_expired"
                  /\ btn'[j].signal = "ExpiredOrInvalidToken"
                  /\ btn'[j].temp_dir = 0
       /\ btn'[j].url # <<>> => Colons(btn'[j].data) = 1]_vars

\* a selection whose data is a stored token followed by a format_id with a
\* ":" in it is being answered ExpiredOrInvalidToken, the token still stored
C17_Witness ==
  \E j \in BtnIds, t \in DOMAIN LINK_STORE :
    /\ btn[j].data = CbData(t, ColonId)
    /\ btn[j].pc = "edit_expired"
    /\ btn[j].signal = "ExpiredOrInvalidToken"

\* C18. Token consumed before the credential check: when a selection with
\* a stored token is handled while the cookies file exists and fails
\* verification, the token is removed from LINK_STORE, no directory is made
\* and the Downloader is not invoked, the flow only sends the cookies text
\* and ends; and a later selection of that token, not minted again, is
\* answered ExpiredOrInvalidToken, whatever the cookies file is by then.
C18_TokenConsumedBeforeCheck ==
  [][\A j \in BtnIds :
       /\ (/\ btn[j].pc = "answer"
           /\ Colons(btn[j].data) = 1
           /\ TokenOf(btn[j].data) \in DOMAIN LINK_STORE
           /\ cookies = "corrupt"
           /\ btn'[j] # btn[j]
           /\ ~Ended(btn'[j])) =>
            /\ btn'[j].pc = "edit_corrupt"
            /\ btn'[j].signal = "CookiesCorrupted"
            /\ TokenOf(btn[j].data) \notin DOMAIN LINK_STORE'
            /\ TokenOf(btn[j].data) \in burnt'
            /\ tmp' = tmp
            /\ btn'[j].temp_dir = 0
            /\ btn'[j].dl = 0
       /\ btn[j].pc = "edit_corrupt" =>
            /\ Ended(btn'[j]) \/ btn'[j] = btn[j]
            /\ tmp' = tmp
       /\ (/\ btn[j].pc = "answer"
           /\ Colons(btn[j].data) = 1
           /\ TokenOf(btn[j].data) \in burnt
           /\ btn'[j] # btn[j]
           /\ ~Ended(btn'[j])) =>
            /\ btn'[j].pc = "edit_expired"
            /\ btn'[j].signal = "ExpiredOrInvalidToken"
            /\ btn'[j].temp_dir = 0
            /\ btn'[j].dl = 0]_vars

\* a token whose one resolution stopped at the cookies check is selected
\* again, the cookies file valid by now, and answered ExpiredOrInvalidToken
C18_Witness ==
  \E j \in BtnIds :
    /\ btn[j].pc = "edit_expired"
    /\ btn[j].token \in burnt
    /\ btn[j].was = "spent"
    /\ cookies = "valid"

\* C19. No tokens without a menu: when a link_handler invocation ends
\* without the menu having been presented (the text is no http(s) url, the
\* cookies file fails verification, the extraction failed, no format is
\* downloadable, or a Telegram request raised, the one that sends the menu
\* included), LINK_STORE is what it was when the submission arrived; and
\* for the first two the Format Lister was not invoked.
C19_NoTokensWithoutMenu ==
  [][\A i \in LinkIds :
       (/\ ~Ended(link[i])
        /\ Ended(link'[i])
        /\ link[i].pc # "edit_menu" \/ link'[i].signal = "Raised") =>
         /\ LINK_STORE' = link[i].store0
         /\ link[i].signal \in {"InvalidUrl", "CookiesCorrupted"}
              => link[i].lister = 0]_vars

\* C19 but for the failure while the menu is sent
NoTokensUnlessMenuBuilt ==
  [][\A i \in LinkIds :
       (/\ ~Ended(link[i])
        /\ Ended(link'[i])
        /\ link[i].pc # "edit_menu") =>
         /\ LINK_STORE' = link[i].store0
         /\ link[i].signal \in {"InvalidUrl", "CookiesCorrupted"}
              => link[i].lister = 0]_vars

\* the text has 'youtube.com' in it and, stripped, starts with '#'
GoodCookies(content) ==
  /\ \E k \in 1..Len(content) : content[k] = "youtube.com"
  /\ \E k \in 1..Len(content) :
       content[k] = "#" /\ \A m \in 1..(k - 1) : content[m] = Space

\* a step puts the uploaded file in the place of the cookies file
Replaced ==
  /\ admin.handler = "document_handler"
  /\ admin.pc = "download"
  /\ admin'.pc = "reply_saved"

\* a document that is refused: from a user outside ADMIN_IDS (none of the
\* handler's state is kept), of another name, or of a text that fails the
\* check
RefusedDocument(r) ==
  /\ r.handler = "document_handler"
  /\ \/ r.user \notin ADMIN_IDS
     \/ r.file_name \notin {<<"cookies.txt">>, <<"Cookies.TXT">>}
     \/ r.content # <<>> /\ ~GoodCookies(r.content[1])

\* the cookies file changes only by an upload of an admin, named
\* cookies.txt, of a text that passes the check, or by /remove_cookies of an
\* admin; a refused document leaves it as it is
CookiesOnlyByAdmin ==
  /\ cookies' # cookies =>
       \/ /\ Replaced
          /\ admin'.user \in ADMIN_IDS
          /\ Lower(admin'.file_name) = <<"cookies.txt">>
          /\ GoodCookies(admin'.content[1])
          /\ cookies' = "valid"
       \/ /\ Ended(admin)
          /\ admin'.handler = "remove_cookies"
          /\ admin'.user \in ADMIN_IDS
          /\ cookies' = "absent"
  /\ (RefusedDocument(admin) \/ RefusedDocument(admin')) => cookies' = cookies
  /\ (Ended(admin) /\ Ended(admin')) => tmpfiles' = tmpfiles

\* C20. Cookie file is changed only by validated admin actions, and a
\* refused document leaves the cookies file unchanged and, when its handler
\* has ended, no temporary file of its own.
C20_CookiesByAdminOnly ==
  [][/\ CookiesOnlyByAdmin
     /\ (RefusedDocument(admin) /\ Ended(admin')) =>
          admin.temp_cookies \notin tmpfiles']_vars

\* C20 but for the temporary file
C20_CookiesPart == [][CookiesOnlyByAdmin]_vars

====
